---- MODULE Spec2Model ----
(***************************************************************************)
(* A model of the SVG path-data parser of src/path.go: the tokenizer, the  *)
(* reverse-scan command assembler (commands / NewPath), the subpath        *)
(* splitter (Path.Subpaths) and the structural equality of commands and    *)
(* paths.                                                                  *)
(*                                                                         *)
(* A Go string is a sequence of one-character strings.  A float64 is the   *)
(* pair <<m, e>> standing for m * 10^e, with m not divisible by ten (and   *)
(* <<0, 0>> for zero), so that two literals parse to the same pair exactly *)
(* when they denote the same number.  A *PathCommand is an address into    *)
(* heap (0 is nil) and a []float64 is an address into arrays (0 is the nil *)
(* slice), so that two references to one object are told from two equal    *)
(* objects.                                                                *)
(***************************************************************************)
EXTENDS Integers, Sequences, FiniteSets, TLC

VARIABLES
    raw,             \* NewPath's argument
    pc,              \* position of the program
    pos,             \* tokenize: index of the next rune of raw
    operand,         \* tokenize: the operand buffer
    ts,              \* tokenize: the tokens added so far
    i,               \* commands: index of the next token of the reverse scan
    operands,        \* commands: the pending operands, most recently seen last
    cmds,            \* commands: the assembled commands (addresses)
    err,             \* the error returned
    path,            \* NewPath's result
    heap,            \* the PathCommand objects allocated so far
    arrays,          \* the parameter arrays allocated so far
    spi,             \* Subpaths: index of the next command of the walk
    sPath,           \* Subpaths: the current segment (path.Commands)
    subpaths,        \* Subpaths: the output list
    mostRecentStart, \* Subpaths: the remembered move (an address, 0 for nil)
    target,          \* the subpath whose head a caller has written to
    eqA, eqB,        \* Equal: receiver and argument
    eqRes            \* Equal: "true", "false" or "panic"

vars == <<raw, pc, pos, operand, ts, i, operands, cmds, err, path, heap, arrays,
          spi, sPath, subpaths, mostRecentStart, target, eqA, eqB, eqRes>>

tokVars  == <<pos, operand, ts>>
scanVars == <<i, operands, cmds, heap, arrays>>
subVars  == <<spi, sPath, subpaths, mostRecentStart, target>>
eqVars   == <<eqA, eqB, eqRes>>

-----------------------------------------------------------------------------
(* Bounds of the checked inputs.                                           *)

MaxLen == 3            \* texts over Alphabet: at most this many characters
MaxSegs == 2           \* texts of operator/operand segments: segments
MaxOperands == 4       \* operands after one operator in such a text
MaxTableOperands == 8  \* operands after the operator of a table text
MaxSubSegs == 5        \* segments of a text built for Subpaths
MaxNumLen == 4         \* characters after the "M" of a numeric text
MaxParams == 2         \* Equal: parameters of a command
MaxCommands == 1       \* Equal: commands of a path

-----------------------------------------------------------------------------
(* Characters and strings.                                                 *)

UpperLetters == <<"A","B","C","D","E","F","G","H","I","J","K","L","M",
                  "N","O","P","Q","R","S","T","U","V","W","X","Y","Z">>
LowerLetters == <<"a","b","c","d","e","f","g","h","i","j","k","l","m",
                  "n","o","p","q","r","s","t","u","v","w","x","y","z">>
Digits == <<"0","1","2","3","4","5","6","7","8","9">>

Range(s) == {s[k] : k \in DOMAIN s}

IsUpper(r) == r \in Range(UpperLetters)
IsLower(r) == r \in Range(LowerLetters)
IsDigit(r) == r \in Range(Digits)
IsSpace(r) == r \in {" ", "\t", "\n", "\r"}

DigitValue(r) == CHOOSE d \in 0..9 : Digits[d + 1] = r

ToLowerRune(r) ==
    IF IsUpper(r)
    THEN LowerLetters[CHOOSE k \in DOMAIN UpperLetters : UpperLetters[k] = r]
    ELSE r

ToLower(s) == [k \in DOMAIN s |-> ToLowerRune(s[k])]

contains(rs, val) == \E k \in DOMAIN rs : rs[k] = val

\* reverse leaving the slice as it is
reverse_Identity(ops) == ops

reverse(ops) == [k \in DOMAIN ops |-> ops[Len(ops) + 1 - k]]

Min(S) == CHOOSE x \in S : \A y \in S : x <= y

-----------------------------------------------------------------------------
(* strconv.ParseFloat(value, 64) on the strings an operand token can hold: *)
(* an optional '-', digits with at most one '.', and an optional exponent  *)
(* 'e' with an optional '-' and at least one digit.  A literal beyond the  *)
(* largest float64 is a range error; one below the smallest underflows to  *)
(* zero with no error.  Mantissas stay below ten digits within the bounds, *)
(* where decimal literals and float64 values correspond one to one (the    *)
(* subnormal range needs an operand of six characters or more).            *)

RECURSIVE ToInt(_)
ToInt(s) == IF s = <<>> THEN 0
            ELSE ToInt(SubSeq(s, 1, Len(s) - 1)) * 10 + DigitValue(s[Len(s)])

RECURSIVE Normalize(_, _)
Normalize(m, e) == IF m = 0 THEN <<0, 0>>
                   ELSE IF m % 10 = 0 THEN Normalize(m \div 10, e + 1)
                   ELSE <<m, e>>

RECURSIVE NumDigits(_)
NumDigits(m) == IF m < 10 THEN 1 ELSE 1 + NumDigits(m \div 10)

RECURSIVE Pow10(_)
Pow10(n) == IF n = 0 THEN 1 ELSE 10 * Pow10(n - 1)

IndexOf(s, r) == IF contains(s, r) THEN Min({k \in DOMAIN s : s[k] = r}) ELSE 0

MantissaOK(s) ==
    /\ \A k \in DOMAIN s : IsDigit(s[k]) \/ s[k] = "."
    /\ Cardinality({k \in DOMAIN s : s[k] = "."}) <= 1
    /\ \E k \in DOMAIN s : IsDigit(s[k])

ExponentOK(s) ==
    LET ds == IF s # <<>> /\ s[1] = "-" THEN Tail(s) ELSE s
    IN  ds # <<>> /\ \A k \in DOMAIN ds : IsDigit(ds[k])

Overflows(m, e) ==
    LET d == NumDigits(m)
    IN  \/ d + e > 309
        \/ d + e = 309 /\ d <= 9 /\ m * Pow10(9 - d) > 179769313

ParseFloat(s) ==
    LET neg  == s # <<>> /\ s[1] = "-"
        body == IF neg THEN Tail(s) ELSE s
        ePos == IndexOf(body, "e")
        mant == IF ePos = 0 THEN body ELSE SubSeq(body, 1, ePos - 1)
        expo == IF ePos = 0 THEN <<>> ELSE SubSeq(body, ePos + 1, Len(body))
        bad  == [ok |-> FALSE, val |-> <<0, 0>>]
    IN  IF ~MantissaOK(mant) \/ (ePos # 0 /\ ~ExponentOK(expo)) THEN bad
        ELSE
          LET dot   == IndexOf(mant, ".")
              whole == IF dot = 0 THEN mant ELSE SubSeq(mant, 1, dot - 1)
              frac  == IF dot = 0 THEN <<>> ELSE SubSeq(mant, dot + 1, Len(mant))
              eNeg  == expo # <<>> /\ expo[1] = "-"
              eAbs  == ToInt(IF eNeg THEN Tail(expo) ELSE expo)
              n     == Normalize(ToInt(whole \o frac),
                                 (IF eNeg THEN 0 - eAbs ELSE eAbs) - Len(frac))
          IN  IF n[1] = 0 THEN [ok |-> TRUE, val |-> <<0, 0>>]
              ELSE IF Overflows(n[1], n[2]) THEN bad
              ELSE IF NumDigits(n[1]) + n[2] <= -324
                   THEN [ok |-> TRUE, val |-> <<0, 0>>]
              ELSE [ok |-> TRUE,
                    val |-> <<IF neg THEN 0 - n[1] ELSE n[1], n[2]>>]

-----------------------------------------------------------------------------
(* Errors, paths and the arity table.                                      *)

NoErr == [msg |-> "", arg |-> <<>>]

LexErr(r)         == [msg |-> "Unrecognized symbol '%s'", arg |-> <<r>>]
StartErr(text)    == [msg |-> "Path data does not start with a moveto command: %s",
                      arg |-> text]
SyntaxErr         == [msg |-> "Invalid parameter syntax", arg |-> <<>>]
UnknownErr(value) == [msg |-> "Invalid command '%s'", arg |-> value]
ArityErr(value)   == [msg |-> "Incorrect number of parameters for %v", arg |-> value]

NilPath == [nil |-> TRUE, Commands |-> <<>>]

startCommand == <<"m">>
endCommand   == <<"z">>

\* commandParams with the entry of "s" taken for that of "t"
commandParams_SmoothAsT ==
    ("m" :> 2) @@ ("z" :> 0) @@ ("l" :> 2) @@ ("h" :> 1) @@ ("v" :> 1) @@
    ("c" :> 6) @@ ("s" :> 2) @@ ("q" :> 4) @@ ("t" :> 2) @@ ("a" :> 7)

commandParams ==
    ("m" :> 2) @@ ("z" :> 0) @@ ("l" :> 2) @@ ("h" :> 1) @@ ("v" :> 1) @@
    ("c" :> 6) @@ ("s" :> 4) @@ ("q" :> 4) @@ ("t" :> 2) @@ ("a" :> 7)

\* the lookup without its ok: a missing key reads as the zero value
LookupParams_NoOk(value) ==
    LET key == ToLower(value)
    IN  [ok |-> TRUE,
         paramCount |-> IF Len(key) = 1 /\ key[1] \in DOMAIN commandParams
                        THEN commandParams[key[1]] ELSE 0]

\* paramCount, ok := commandParams[strings.ToLower(value)]
LookupParams(value) ==
    LET key == ToLower(value)
    IN  IF Len(key) = 1 /\ key[1] \in DOMAIN commandParams
        THEN [ok |-> TRUE, paramCount |-> commandParams[key[1]]]
        ELSE [ok |-> FALSE, paramCount |-> 0]

-----------------------------------------------------------------------------
(* tokenize.                                                               *)

\* func (ts *tokens) add(value []rune, operator bool) bool
add(tokens, value, operator) ==
    IF Len(value) = 0 THEN tokens
    ELSE Append(tokens, [value |-> value, operator |-> operator])

\* the '-' case starting a new operand without adding the buffered one
tokenizeMinus_NoFlush(tokens, buf) ==
    IF Len(buf) > 0 /\ buf[Len(buf)] = "e"
    THEN [ts |-> tokens, operand |-> Append(buf, "-"), err |-> NoErr]
    ELSE [ts |-> tokens, operand |-> <<"-">>, err |-> NoErr]

\* The '-' case of the switch: part of an exponent, or the start of a new
\* operand.
tokenizeMinus(tokens, buf) ==
    IF Len(buf) > 0 /\ buf[Len(buf)] = "e"
    THEN [ts |-> tokens, operand |-> Append(buf, "-"), err |-> NoErr]
    ELSE [ts |-> add(tokens, buf, FALSE), operand |-> <<"-">>, err |-> NoErr]

\* the '.' case without the split at a second '.'
tokenizeDot_NoSplit(tokens, buf) ==
    [ts |-> tokens,
     operand |-> Append(IF Len(buf) = 0 THEN <<"0">> ELSE buf, "."),
     err |-> NoErr]

\* The '.' case of the switch, with its fallthrough into the append.
tokenizeDot(tokens, buf) ==
    LET seeded == IF Len(buf) = 0 THEN <<"0">> ELSE buf
    IN  IF contains(seeded, ".")
        THEN [ts |-> add(tokens, seeded, FALSE), operand |-> <<"0", ".">>,
              err |-> NoErr]
        ELSE [ts |-> tokens, operand |-> Append(seeded, "."), err |-> NoErr]

\* the loop body with a default case that skips the rune
tokenizeRune_SkipUnknown(tokens, buf, r) ==
    IF r = "." THEN tokenizeDot(tokens, buf)
    ELSE IF IsDigit(r) \/ r = "e"
    THEN [ts |-> tokens, operand |-> Append(buf, r), err |-> NoErr]
    ELSE IF r = "-" THEN tokenizeMinus(tokens, buf)
    ELSE IF IsLower(r) \/ IsUpper(r)
    THEN [ts |-> add(add(tokens, buf, FALSE), <<r>>, TRUE), operand |-> <<>>,
          err |-> NoErr]
    ELSE [ts |-> add(tokens, buf, FALSE), operand |-> <<>>, err |-> NoErr]

\* One iteration of the loop over the runes of raw.
tokenizeRune(tokens, buf, r) ==
    IF r = "." THEN tokenizeDot(tokens, buf)
    ELSE IF IsDigit(r) \/ r = "e"
    THEN [ts |-> tokens, operand |-> Append(buf, r), err |-> NoErr]
    ELSE IF r = "-" THEN tokenizeMinus(tokens, buf)
    ELSE IF IsLower(r) \/ IsUpper(r)
    THEN [ts |-> add(add(tokens, buf, FALSE), <<r>>, TRUE), operand |-> <<>>,
          err |-> NoErr]
    ELSE IF IsSpace(r) \/ r = ","
    THEN [ts |-> add(tokens, buf, FALSE), operand |-> <<>>, err |-> NoErr]
    ELSE [ts |-> tokens, operand |-> buf, err |-> LexErr(r)]

TokenizeRune ==
    /\ pc = "tokenize"
    /\ pos <= Len(raw)
    /\ LET st == tokenizeRune(ts, operand, raw[pos])
       IN  /\ ts' = st.ts
           /\ operand' = st.operand
           /\ err' = st.err
           /\ IF st.err # NoErr
              THEN pc' = "return" /\ pos' = pos
              ELSE pc' = pc /\ pos' = pos + 1
    /\ UNCHANGED <<raw, path, scanVars, subVars, eqVars>>

TokenizeEnd ==
    /\ pc = "tokenize"
    /\ pos > Len(raw)
    /\ ts' = add(ts, operand, FALSE)
    /\ pc' = "check"
    /\ UNCHANGED <<raw, pos, operand, err, path, scanVars, subVars, eqVars>>

-----------------------------------------------------------------------------
(* commands: the start check and the reverse scan.                         *)

\* the start check applied to a leading operator only
StartFault_OperatorOnly(tokens) ==
    /\ Len(tokens) > 0
    /\ tokens[1].operator
    /\ ToLower(tokens[1].value) # startCommand

\* len(tokens) > 0 && strings.ToLower(tokens[0].value) != startCommand
StartFault(tokens) ==
    Len(tokens) > 0 /\ ToLower(tokens[1].value) # startCommand

CheckStart ==
    /\ pc = "check"
    /\ IF StartFault(ts)
       THEN /\ err' = StartErr(raw)
            /\ pc' = "return"
            /\ UNCHANGED <<i, operands, cmds>>
       ELSE /\ i' = Len(ts)
            /\ operands' = <<>>
            /\ cmds' = <<>>
            /\ pc' = "scan"
            /\ err' = err
    /\ UNCHANGED <<raw, tokVars, path, heap, arrays, subVars, eqVars>>

ScanOperand ==
    /\ pc = "scan"
    /\ i >= 1
    /\ ~ts[i].operator
    /\ LET number == ParseFloat(ts[i].value)
       IN  IF ~number.ok
           THEN /\ err' = SyntaxErr
                /\ pc' = "return"
                /\ UNCHANGED <<i, operands>>
           ELSE /\ operands' = Append(operands, number.val)
                /\ i' = i - 1
                /\ UNCHANGED <<err, pc>>
    /\ UNCHANGED <<raw, tokVars, cmds, heap, arrays, path, subVars, eqVars>>

\* paramCount == 0 || operandCount%paramCount != 0, reached when the
\* paramCount == 0 && operandCount == 0 branch was not taken
ArityFault(paramCount, operandCount) ==
    paramCount = 0 \/ operandCount % paramCount # 0

\* the rewrite keeping the move symbol for the first iteration instead of
\* the last
Rewrite_KeepFirstConsumed(value, it, loopCount) ==
    IF value = <<"m">> /\ it > 0 THEN <<"l">>
    ELSE IF value = <<"M">> /\ it > 0 THEN <<"L">>
    ELSE value

\* no rewrite at all: every repetition keeps the operator's symbol
Rewrite_Never(value, it, loopCount) == value

\* The symbol of the command of iteration it (from 0) of loopCount.
Rewrite(value, it, loopCount) ==
    IF value = <<"m">> /\ it < loopCount - 1 THEN <<"l">>
    ELSE IF value = <<"M">> /\ it < loopCount - 1 THEN <<"L">>
    ELSE value

\* The parameters of the command of iteration it (from 0): the first
\* paramCount pending operands at that iteration, reversed.
Group(ops, paramCount, it) ==
    reverse(SubSeq(ops, it * paramCount + 1, (it + 1) * paramCount))

\* What the scan does with the operator token value, given the pending
\* operands, the assembled commands and the memory.
assembleOperator(value, ops, cs, hp, ars) ==
    LET look == LookupParams(value)
        paramCount == look.paramCount
        operandCount == Len(ops)
        same == [err |-> NoErr, operands |-> ops, cmds |-> cs,
                 heap |-> hp, arrays |-> ars]
    IN  IF ~look.ok THEN [same EXCEPT !.err = UnknownErr(value)]
        ELSE IF paramCount = 0 /\ operandCount = 0
        THEN [same EXCEPT
                !.heap = Append(hp, [Symbol |-> value, Params |-> 0]),
                !.cmds = <<Len(hp) + 1>> \o cs]
        ELSE IF ArityFault(paramCount, operandCount)
        THEN [same EXCEPT !.err = ArityErr(value)]
        ELSE
          LET loopCount == operandCount \div paramCount
          IN  [err |-> NoErr,
               operands |-> SubSeq(ops, loopCount * paramCount + 1, operandCount),
               cmds |-> [k \in 1..loopCount |-> Len(hp) + loopCount + 1 - k] \o cs,
               heap |-> hp \o [k \in 1..loopCount |->
                          [Symbol |-> Rewrite(value, k - 1, loopCount),
                           Params |-> Len(ars) + k]],
               arrays |-> ars \o [k \in 1..loopCount |->
                          Group(ops, paramCount, k - 1)]]

ScanOperator ==
    /\ pc = "scan"
    /\ i >= 1
    /\ ts[i].operator
    /\ LET st == assembleOperator(ts[i].value, operands, cmds, heap, arrays)
       IN  /\ err' = st.err
           /\ operands' = st.operands
           /\ cmds' = st.cmds
           /\ heap' = st.heap
           /\ arrays' = st.arrays
           /\ IF st.err # NoErr
              THEN pc' = "return" /\ i' = i
              ELSE pc' = pc /\ i' = i - 1
    /\ UNCHANGED <<raw, tokVars, path, subVars, eqVars>>

ScanDone ==
    /\ pc = "scan"
    /\ i = 0
    /\ pc' = "return"
    /\ UNCHANGED <<raw, tokVars, scanVars, err, path, subVars, eqVars>>

-----------------------------------------------------------------------------
(* NewPath.                                                                *)

\* NewPath without its error check
NewPathResult_Partial(cs, e) == [nil |-> FALSE, Commands |-> cs]

\* if err != nil { return nil, err }; return &Path{Commands: cmds}, nil
NewPathResult(cs, e) ==
    IF e # NoErr THEN NilPath ELSE [nil |-> FALSE, Commands |-> cs]

NewPathReturn ==
    /\ pc = "return"
    /\ path' = NewPathResult(cmds, err)
    /\ pc' = "done"
    /\ UNCHANGED <<raw, tokVars, scanVars, err, subVars, eqVars>>

-----------------------------------------------------------------------------
(* Path.Subpaths.                                                          *)

SubpathsBegin ==
    /\ pc = "done"
    /\ ~path.nil
    /\ pc' = "split"
    /\ spi' = 1
    /\ sPath' = <<>>
    /\ subpaths' = <<>>
    /\ mostRecentStart' = 0
    /\ UNCHANGED <<raw, tokVars, scanVars, err, path, target, eqVars>>

\* case startCommand: the current segment is closed out if it is not empty
closeIfOpen(out, cur) == IF Len(cur) > 0 THEN Append(out, cur) ELSE out

\* case endCommand: subpaths = append(subpaths, path)
closeSegment(out, cur) == Append(out, cur)

\* default: the segment a command is appended to; an empty one is replaced
\* by one holding mostRecentStart
seedSegment(cur, start) == IF Len(cur) = 0 THEN <<start>> ELSE cur

\* One iteration of the loop over p.Commands.
SubpathsStep ==
    /\ pc = "split"
    /\ spi <= Len(path.Commands)
    /\ LET command == path.Commands[spi]
           symbol  == ToLower(heap[command].Symbol)
       IN  IF symbol = startCommand
           THEN /\ subpaths' = closeIfOpen(subpaths, sPath)
                /\ sPath' = <<command>>
                /\ heap' = Append(heap, [Symbol |-> heap[command].Symbol,
                                         Params |-> heap[command].Params])
                /\ mostRecentStart' = Len(heap) + 1
           ELSE IF symbol = endCommand
           THEN /\ subpaths' = closeSegment(subpaths, sPath)
                /\ sPath' = <<>>
                /\ UNCHANGED <<heap, mostRecentStart>>
           ELSE /\ sPath' = Append(seedSegment(sPath, mostRecentStart), command)
                /\ UNCHANGED <<subpaths, heap, mostRecentStart>>
    /\ spi' = spi + 1
    /\ UNCHANGED <<raw, pc, tokVars, i, operands, cmds, arrays, err, path,
                   target, eqVars>>

SubpathsEnd ==
    /\ pc = "split"
    /\ spi > Len(path.Commands)
    /\ subpaths' = closeIfOpen(subpaths, sPath)
    /\ pc' = "subpaths"
    /\ UNCHANGED <<raw, tokVars, scanVars, err, path, spi, sPath,
                   mostRecentStart, target, eqVars>>

-----------------------------------------------------------------------------
(* A caller's writes through the exported fields of a subpath's first      *)
(* command: subpaths[j].Commands[0].Symbol = "Q" and                       *)
(* subpaths[j].Commands[0].Params[0] = 9.  A head is synthesized when it   *)
(* is no command of the source path.                                       *)

Synthesized(j) ==
    /\ j \in DOMAIN subpaths
    /\ Len(subpaths[j]) > 0
    /\ subpaths[j][1] # 0
    /\ subpaths[j][1] \notin Range(path.Commands)

SetHeadSymbol ==
    /\ pc = "subpaths"
    /\ \E j \in DOMAIN subpaths :
         /\ Synthesized(j)
         /\ heap' = [heap EXCEPT ![subpaths[j][1]].Symbol = <<"Q">>]
         /\ target' = j
    /\ pc' = "written"
    /\ UNCHANGED <<raw, tokVars, i, operands, cmds, arrays, err, path, spi,
                   sPath, subpaths, mostRecentStart, eqVars>>

SetHeadParam ==
    /\ pc = "subpaths"
    /\ \E j \in DOMAIN subpaths :
         /\ Synthesized(j)
         /\ heap[subpaths[j][1]].Params # 0
         /\ Len(arrays[heap[subpaths[j][1]].Params]) > 0
         /\ arrays' = [arrays EXCEPT ![heap[subpaths[j][1]].Params][1] = <<9, 0>>]
         /\ target' = j
    /\ pc' = "written"
    /\ UNCHANGED <<raw, tokVars, i, operands, cmds, heap, err, path, spi,
                   sPath, subpaths, mostRecentStart, eqVars>>

-----------------------------------------------------------------------------
(* PathCommand.Equal and Path.Equal.  A command is here the record of its  *)
(* symbol and its parameters; an index out of range is a panic.            *)

CommandEqual(c, o) ==
    IF c.Symbol # o.Symbol THEN "false"
    ELSE LET stop == {k \in DOMAIN c.Params :
                        k > Len(o.Params) \/ c.Params[k] # o.Params[k]}
         IN  IF stop = {} THEN "true"
             ELSE IF Min(stop) > Len(o.Params) THEN "panic"
             ELSE "false"

PathEqual(p, o) ==
    IF Len(p) # Len(o) THEN "false"
    ELSE LET stop == {k \in DOMAIN p : CommandEqual(p[k], o[k]) # "true"}
         IN  IF stop = {} THEN "true"
             ELSE CommandEqual(p[Min(stop)], o[Min(stop)])

SeqsUpTo(S, n) == UNION {[1..k -> S] : k \in 0..n}

EqValues   == {<<1, 0>>, <<2, 0>>}
EqCommands == [Symbol : {<<"m">>, <<"l">>}, Params : SeqsUpTo(EqValues, MaxParams)]
EqPaths    == SeqsUpTo(EqCommands, MaxCommands)

DoCommandEqual ==
    /\ pc = "equal"
    /\ \E c \in EqCommands, o \in EqCommands :
         /\ eqA' = c
         /\ eqB' = o
         /\ eqRes' = CommandEqual(c, o)
    /\ pc' = "commandEqual"
    /\ UNCHANGED <<raw, tokVars, scanVars, err, path, subVars>>

DoPathEqual ==
    /\ pc = "equal"
    /\ \E p \in EqPaths, o \in EqPaths :
         /\ eqA' = p
         /\ eqB' = o
         /\ eqRes' = PathEqual(p, o)
    /\ pc' = "pathEqual"
    /\ UNCHANGED <<raw, tokVars, scanVars, err, path, subVars>>

-----------------------------------------------------------------------------
(* The checked inputs.                                                     *)

Alphabet == {"M", "m", "L", "Z", "x", "1", ".", "-", "e", " ", "%", "+"}

\* every text over Alphabet of at most MaxLen characters
TextsChars == SeqsUpTo(Alphabet, MaxLen)

\* an operator followed by n operands, the first of them numbered from
SegOps == {"M", "l", "Z", "x"}
RenderSeg(op, n, from) ==
    <<op>> \o [k \in 1..(2 * n) |->
                 IF k % 2 = 1 THEN " "
                 ELSE Digits[((from + (k \div 2) - 1) % 9) + 2]]

RECURSIVE Render(_, _)
Render(segs, from) ==
    IF segs = <<>> THEN <<>>
    ELSE RenderSeg(segs[1].op, segs[1].n, from)
           \o Render(Tail(segs), from + segs[1].n)

\* at most MaxSegs operators, each followed by at most MaxOperands operands
TextsSegs ==
    {Render(segs, 0) :
       segs \in SeqsUpTo([op : SegOps, n : 0..MaxOperands], MaxSegs)}

\* "M 1 2" followed by any one letter and at most MaxTableOperands operands
TextsTable ==
    {RenderSeg("M", 2, 0) \o RenderSeg(op, n, 2) :
       op \in Range(UpperLetters) \cup Range(LowerLetters),
       n \in 0..MaxTableOperands}

\* at most MaxSubSegs of the segments below, for Subpaths
SubSegs == {<<"M", "1", " ", "2">>, <<"m", "3", " ", "4">>, <<"H", "5">>, <<"Z">>}

RECURSIVE Concat(_)
Concat(ss) == IF ss = <<>> THEN <<>> ELSE ss[1] \o Concat(Tail(ss))

TextsSub == {Concat(ss) : ss \in SeqsUpTo(SubSegs, MaxSubSegs)}

\* "M" followed by at most MaxNumLen characters of numbers
NumAlphabet == {"1", "2", ".", "-", "e"}
TextsNum == {<<"M">> \o t : t \in SeqsUpTo(NumAlphabet, MaxNumLen)}

Texts == TextsChars \cup TextsSegs \cup TextsTable \cup TextsSub \cup TextsNum

-----------------------------------------------------------------------------
(* The specifications.                                                     *)

Idle ==
    /\ pos = 1 /\ operand = <<>> /\ ts = <<>>
    /\ i = 0 /\ operands = <<>> /\ cmds = <<>>
    /\ err = NoErr /\ path = NilPath
    /\ heap = <<>> /\ arrays = <<>>
    /\ spi = 0 /\ sPath = <<>> /\ subpaths = <<>> /\ mostRecentStart = 0
    /\ target = 0
    /\ eqA = <<>> /\ eqB = <<>> /\ eqRes = "none"

\* NewPath(raw), then Subpaths on its result, then a caller's write.
Init == raw \in Texts /\ pc = "tokenize" /\ Idle

Next ==
    \/ TokenizeRune
    \/ TokenizeEnd
    \/ CheckStart
    \/ ScanOperand
    \/ ScanOperator
    \/ ScanDone
    \/ NewPathReturn
    \/ SubpathsBegin
    \/ SubpathsStep
    \/ SubpathsEnd
    \/ SetHeadSymbol
    \/ SetHeadParam

Spec == Init /\ [][Next]_vars

\* One call of Equal on two commands or on two paths.
InitEqual == raw = <<>> /\ pc = "equal" /\ Idle

NextEqual == DoCommandEqual \/ DoPathEqual

SpecEqual == InitEqual /\ [][NextEqual]_vars

-----------------------------------------------------------------------------
(* Vocabulary of the properties.                                           *)

\* tokenize as a function of a text that holds no unrecognized character
RECURSIVE tokenizeFrom(_, _, _, _)
tokenizeFrom(tokens, buf, text, k) ==
    IF k > Len(text) THEN add(tokens, buf, FALSE)
    ELSE LET st == tokenizeRune(tokens, buf, text[k])
         IN  tokenizeFrom(st.ts, st.operand, text, k + 1)

tokenize(text) == tokenizeFrom(<<>>, <<>>, text, 1)

\* the arities as the documentation lists them
ArityOf ==
    [r \in {"m", "z", "l", "h", "v", "c", "s", "q", "t", "a"} |->
       IF r = "z" THEN 0
       ELSE IF r \in {"h", "v"} THEN 1
       ELSE IF r \in {"m", "l", "t"} THEN 2
       ELSE IF r \in {"s", "q"} THEN 4
       ELSE IF r = "c" THEN 6
       ELSE 7]

Known(value) == Len(value) = 1 /\ ToLowerRune(value[1]) \in DOMAIN ArityOf
Arity(value) == ArityOf[ToLowerRune(value[1])]

Recognized(r) ==
    IsDigit(r) \/ r \in {".", "-", ","} \/ IsLower(r) \/ IsUpper(r) \/ IsSpace(r)
LexOK(text) == \A k \in DOMAIN text : Recognized(text[k])

IsMove(value) == value \in {<<"m">>, <<"M">>}

\* the command at address a, by value
ViewIn(hp, ars, a) ==
    [Symbol |-> hp[a].Symbol,
     Params |-> IF hp[a].Params = 0 THEN <<>> ELSE ars[hp[a].Params]]

View(a) == ViewIn(heap, arrays, a)

\* the number of operand tokens that follow token k of tokens without an
\* operator in between
RunLen(tokens, k) ==
    LET stops == {j \in (k + 1)..Len(tokens) : tokens[j].operator}
    IN  (IF stops = {} THEN Len(tokens) + 1 ELSE Min(stops)) - k - 1

\* the numbers of the g-th group of n operand tokens after token k
SourceGroup(tokens, k, g, n) ==
    [t \in 1..n |-> ParseFloat(tokens[k + (g - 1) * n + t].value).val]

\* NewPath has returned
Returned == pc = "done"
Succeeded == Returned /\ ~path.nil

-----------------------------------------------------------------------------
(* C1: whenever NewPath succeeds with a non-empty command list, the first  *)
(* command's symbol, lower-cased, is "m".                                  *)
C1_MoveStart ==
    (Succeeded /\ Len(path.Commands) > 0)
      => ToLower(heap[path.Commands[1]].Symbol) = <<"m">>

(* C2: when the reverse scan reaches an operator of arity n > 0, the parse *)
(* fails with the arity error naming the operator whenever the number of   *)
(* pending operands is zero or no multiple of n, and goes on only when it  *)
(* is a positive multiple; at the close operator it fails with that error  *)
(* whenever an operand is pending.                                         *)
C2_ArityError ==
    [][(pc = "scan" /\ i >= 1 /\ ts[i].operator /\ Known(ts[i].value)
        /\ (pc' # pc \/ i' # i))
       => LET n == Arity(ts[i].value)
              count == Len(operands)
              fault == IF n > 0 THEN count = 0 \/ count % n # 0 ELSE count > 0
          IN  IF fault THEN err' = ArityErr(ts[i].value) /\ pc' = "return"
              ELSE err' = NoErr /\ pc' = "scan"]_vars

(* C3: every command of a successful NewPath has as many parameters as the *)
(* arity of its lower-cased symbol: 0 for z, 1 for h and v, 2 for m, l, t, *)
(* 4 for s and q, 6 for c, 7 for a.                                        *)
C3_ArityInvariant ==
    (pc = "done" /\ ~path.nil)
      => \A k \in DOMAIN path.Commands :
           /\ Known(View(path.Commands[k]).Symbol)
           /\ Len(View(path.Commands[k]).Params)
                = Arity(View(path.Commands[k]).Symbol)

\* a successful parse holding a line command that no token of the text names
C3_Witness ==
    /\ pc = "done" /\ ~path.nil
    /\ \E k \in DOMAIN path.Commands :
         /\ View(path.Commands[k]).Symbol = <<"L">>
         /\ Len(View(path.Commands[k]).Params) = 2
         /\ \A t \in DOMAIN ts : ts[t].value # <<"L">>

(* C4: every subpath Subpaths returns on a successfully parsed path is     *)
(* non-empty, starts with a non-nil command whose lower-cased symbol is    *)
(* "m", and holds no close command.  Stated of the paths that start with a *)
(* move command, where the fault of C1 plays no part.                      *)
C4_SubpathInvariant ==
    (pc = "subpaths" /\ Len(path.Commands) > 0
       /\ IsMove(heap[path.Commands[1]].Symbol))
      => \A j \in DOMAIN subpaths :
           /\ Len(subpaths[j]) > 0
           /\ subpaths[j][1] # 0
           /\ ToLower(heap[subpaths[j][1]].Symbol) = <<"m">>
           /\ \A k \in DOMAIN subpaths[j] :
                subpaths[j][k] # 0
                  => ToLower(heap[subpaths[j][k]].Symbol) # <<"z">>


(* C5: a move operator followed by k >= 2 coordinate pairs yields k        *)
(* commands in source order, the first with the move symbol and the others *)
(* with the line symbol of the same case; any other operator followed by k *)
(* groups of operands yields k commands with its own symbol.               *)
C5_Expected(value, g) ==
    IF g = 1 THEN value
    ELSE IF value = <<"M">> THEN <<"L">>
    ELSE IF value = <<"m">> THEN <<"l">>
    ELSE value

C5_ImplicitLineTo ==
    [][(pc = "scan" /\ i >= 1 /\ ts[i].operator /\ Known(ts[i].value)
        /\ Arity(ts[i].value) > 0
        /\ RunLen(ts, i) > 0
        /\ RunLen(ts, i) % Arity(ts[i].value) = 0
        /\ (pc' # pc \/ i' # i))
       => LET n == Arity(ts[i].value)
              k == RunLen(ts, i) \div n
          IN  /\ err' = NoErr
              /\ Len(cmds') = Len(cmds) + k
              /\ SubSeq(cmds', k + 1, Len(cmds')) = cmds
              /\ \A g \in 1..k :
                   ViewIn(heap', arrays', cmds'[g]) =
                     [Symbol |-> C5_Expected(ts[i].value, g),
                      Params |-> SourceGroup(ts, i, g, n)]]_vars

\* the scan has just passed a move operator followed by three or more pairs
C5_Witness ==
    /\ pc = "scan" /\ i < Len(ts)
    /\ IsMove(ts[i + 1].value)
    /\ RunLen(ts, i + 1) >= 6
    /\ Len(cmds) >= 3
    /\ IsMove(View(cmds[1]).Symbol)
    /\ View(cmds[1]).Params = SourceGroup(ts, i + 1, 1, 2)
    /\ ToLower(View(cmds[2]).Symbol) = <<"l">>
    /\ ToLower(View(cmds[3]).Symbol) = <<"l">>

(* C6: when Subpaths seeds two or more segments with the remembered move,  *)
(* a write to the symbol or to a parameter of one subpath's synthesized    *)
(* head changes neither the synthesized head of another subpath nor any    *)
(* command of the source path.                                             *)
C6_NoAliasing ==
    [][(pc = "subpaths" /\ pc' = "written")
       => /\ \A k \in DOMAIN subpaths :
               (k # target' /\ Synthesized(k))
                 => View(subpaths[k][1])' = View(subpaths[k][1])
          /\ \A k \in DOMAIN path.Commands :
               View(path.Commands[k])' = View(path.Commands[k])]_vars

(* C7: a text that tokenizes without a lexical error into a non-empty      *)
(* token sequence whose first token is not "m" or "M" fails with the       *)
(* start-command error carrying the unmodified text, whatever other fault  *)
(* the text holds; a text with no tokens succeeds with no commands.        *)
C7_StartError ==
    (Returned /\ LexOK(raw))
      => /\ (tokenize(raw) # <<>> /\ ~IsMove(tokenize(raw)[1].value))
              => (err = StartErr(raw) /\ path.nil)
         /\ tokenize(raw) = <<>>
              => (err = NoErr /\ ~path.nil /\ path.Commands = <<>>)

\* the start-command error on a text that also holds an unknown command
\* and an operand that is no number
C7_Witness ==
    /\ pc = "done" /\ LexOK(raw)
    /\ ts # <<>> /\ ~IsMove(ts[1].value)
    /\ \E k \in DOMAIN ts : ts[k].operator /\ ~Known(ts[k].value)
    /\ \E k \in DOMAIN ts : ~ts[k].operator /\ ~ParseFloat(ts[k].value).ok
    /\ err = StartErr(raw)

(* C8: a text that starts with a move operator and holds an operator       *)
(* letter outside the arity table never parses successfully, and when no   *)
(* faulty token lies to the right of that letter the error is the          *)
(* unknown-command error naming that letter, whatever number of operands   *)
(* follows it.                                                             *)
C8_UnknownLetter(r) ==
    /\ IsLower(r) \/ IsUpper(r)
    /\ r # "e"
    /\ ToLowerRune(r) \notin {"m", "z", "l", "h", "v", "c", "s", "q", "t", "a"}

C8_Separator(r) == IsSpace(r) \/ r = ","

C8_StartsWithMove(text) ==
    \E k \in DOMAIN text :
      /\ text[k] \in {"m", "M"}
      /\ \A j \in 1..(k - 1) : C8_Separator(text[j])

\* token k of tokens is faulty: an operand that is no number, an unknown
\* operator, or an operator whose operand count is zero or no multiple of
\* its arity (any operand at all for the close operator)
C8_Faulty(tokens, k) ==
    IF ~tokens[k].operator THEN ~ParseFloat(tokens[k].value).ok
    ELSE IF ~Known(tokens[k].value) THEN TRUE
    ELSE IF Arity(tokens[k].value) = 0 THEN RunLen(tokens, k) > 0
    ELSE \/ RunLen(tokens, k) = 0
         \/ RunLen(tokens, k) % Arity(tokens[k].value) # 0

C8_NoFaultRight(text, p) ==
    LET rest == SubSeq(text, p + 1, Len(text))
    IN  /\ LexOK(rest)
        /\ \A k \in DOMAIN tokenize(rest) : ~C8_Faulty(tokenize(rest), k)

C8_Conclusion ==
    \A p \in DOMAIN raw :
      C8_UnknownLetter(raw[p])
        => /\ path.nil /\ err # NoErr
           /\ C8_NoFaultRight(raw, p) => err = UnknownErr(<<raw[p]>>)

\* the claim as written
C8_Original ==
    (Returned /\ C8_StartsWithMove(raw)) => C8_Conclusion

\* the claim of the texts that tokenize without a lexical error
C8_UnknownCommand ==
    (Returned /\ LexOK(raw) /\ C8_StartsWithMove(raw)) => C8_Conclusion

\* the unknown-command error for a letter that operands follow
C8_Witness ==
    /\ pc = "done" /\ LexOK(raw) /\ C8_StartsWithMove(raw)
    /\ \E p \in DOMAIN raw :
         /\ C8_UnknownLetter(raw[p])
         /\ C8_NoFaultRight(raw, p)
         /\ Len(tokenize(SubSeq(raw, p + 1, Len(raw)))) >= 2
         /\ err = UnknownErr(<<raw[p]>>)

(* C9: whenever NewPath returns an error the returned path is nil, even if *)
(* commands to the right of the fault had been assembled; whenever it      *)
(* returns no error the returned path is not nil.                          *)
C9_NoPartialResult ==
    Returned => (path.nil <=> err # NoErr)

\* an error returned after commands had been assembled
C9_Witness ==
    pc = "done" /\ err # NoErr /\ Len(cmds) > 0 /\ path.nil

(* C10: a.Equal(b) is true exactly when the symbols are identical and the  *)
(* parameter lists have the same length and the same values, and false     *)
(* otherwise; Equal on paths is true exactly when they have the same       *)
(* number of commands and these are pairwise equal in order.               *)
C10_StructuralEquality ==
    pc \in {"commandEqual", "pathEqual"}
      => /\ eqRes \in {"true", "false"}
         /\ eqRes = "true" <=> eqA = eqB


(* C11: in tokenize a '-' that follows a buffered 'e' is appended to the   *)
(* operand; every other '-' ends the operand, which is emitted if it is    *)
(* not empty, and starts a new operand "-".  Hence digits, '-', digits     *)
(* yield two operands, the second negative, and two consecutive '-' yield  *)
(* a lone "-" operand, so that NewPath fails, with "Invalid parameter      *)
(* syntax" when no operator to the right of it is at fault.                *)
C11_Prefix(p) == tokenize(SubSeq(raw, 1, p - 1))

C11_MinusStep ==
    (pc = "tokenize" /\ pos <= Len(raw) /\ raw[pos] = "-"
       /\ (pos' # pos \/ pc' # pc))
      => /\ pos' = pos + 1 /\ pc' = "tokenize"
         /\ IF operand # <<>> /\ operand[Len(operand)] = "e"
            THEN operand' = Append(operand, "-") /\ ts' = ts
            ELSE /\ operand' = <<"-">>
                 /\ ts' = IF operand = <<>> THEN ts
                          ELSE Append(ts, [value |-> operand, operator |-> FALSE])

C11_TwoOperands(tokens) ==
    \A p \in 2..(Len(raw) - 1) :
      (IsDigit(raw[p - 1]) /\ raw[p] = "-" /\ IsDigit(raw[p + 1]))
        => LET n == Len(C11_Prefix(p))
           IN  /\ n >= 1 /\ Len(tokens) > n
               /\ SubSeq(tokens, 1, n) = C11_Prefix(p)
               /\ ~tokens[n].operator
               /\ tokens[n].value[Len(tokens[n].value)] = raw[p - 1]
               /\ ~tokens[n + 1].operator
               /\ SubSeq(tokens[n + 1].value, 1, 2) = <<"-", raw[p + 1]>>
               /\ ParseFloat(tokens[n + 1].value).ok
                    => ParseFloat(tokens[n + 1].value).val[1] <= 0

\* position p holds the first of two consecutive '-' and no exponent sign
C11_DoubleMinus(p) ==
    /\ p \in 1..(Len(raw) - 1)
    /\ raw[p] = "-" /\ raw[p + 1] = "-"
    /\ p = 1 \/ raw[p - 1] # "e"

C11_LoneMinus(tokens) ==
    \A p \in DOMAIN raw :
      C11_DoubleMinus(p)
        => LET n == Len(C11_Prefix(p))
           IN  /\ Len(tokens) > n
               /\ tokens[n + 1] = [value |-> <<"-">>, operator |-> FALSE]

C11_OperatorsRightOK(p) ==
    LET rest == tokenize(SubSeq(raw, p + 1, Len(raw)))
    IN  \A k \in DOMAIN rest : rest[k].operator => ~C8_Faulty(rest, k)

C11_Fails(result) ==
    \A p \in DOMAIN raw :
      C11_DoubleMinus(p)
        => /\ result.nil /\ err # NoErr
           /\ (LexOK(raw) /\ C8_StartsWithMove(raw) /\ C11_OperatorsRightOK(p))
                => err = SyntaxErr

C12_DotStep ==
    (pc = "tokenize" /\ pos <= Len(raw) /\ raw[pos] = "."
       /\ (pos' # pos \/ pc' # pc))
      => /\ pos' = pos + 1 /\ pc' = "tokenize"
         /\ IF operand = <<>>
            THEN operand' = <<"0", ".">> /\ ts' = ts
            ELSE IF \E k \in DOMAIN operand : operand[k] = "."
            THEN /\ ts' = Append(ts, [value |-> operand, operator |-> FALSE])
                 /\ operand' = <<"0", ".">>
            ELSE operand' = Append(operand, ".") /\ ts' = ts

C12_OneDot(tokens) ==
    \A k \in DOMAIN tokens :
      ~tokens[k].operator
        => Cardinality({j \in DOMAIN tokens[k].value :
                          tokens[k].value[j] = "."}) <= 1

\* position p starts a run '.', digit, '.', digit at an empty buffer, and
\* the run ends the text or a separator follows it
C12_Run(p) ==
    /\ p \in 1..(Len(raw) - 3)
    /\ raw[p] = "." /\ IsDigit(raw[p + 1])
    /\ raw[p + 2] = "." /\ IsDigit(raw[p + 3])
    /\ p = 1 \/ C8_Separator(raw[p - 1])
         \/ ((IsLower(raw[p - 1]) \/ IsUpper(raw[p - 1])) /\ raw[p - 1] # "e")
    /\ p + 3 = Len(raw) \/ C8_Separator(raw[p + 4])

C12_Tenths(r) == IF r = "0" THEN <<0, 0>> ELSE <<DigitValue(r), -1>>

C12_Adjacent(tokens) ==
    \A p \in DOMAIN raw :
      (LexOK(raw) /\ C12_Run(p))
        => LET n == Len(tokenize(SubSeq(raw, 1, p - 1)))
           IN  /\ Len(tokens) >= n + 2
               /\ tokens[n + 1] = [value |-> <<"0", ".", raw[p + 1]>>,
                                   operator |-> FALSE]
               /\ tokens[n + 2] = [value |-> <<"0", ".", raw[p + 3]>>,
                                   operator |-> FALSE]
               /\ ParseFloat(tokens[n + 1].value)
                    = [ok |-> TRUE, val |-> C12_Tenths(raw[p + 1])]
               /\ ParseFloat(tokens[n + 2].value)
                    = [ok |-> TRUE, val |-> C12_Tenths(raw[p + 3])]

C12_AdjacentDecimals ==
    [][/\ C12_DotStep
       /\ pc = "tokenize" => C12_OneDot(ts')
       /\ (pc = "tokenize" /\ pc' = "check") => C12_Adjacent(ts')]_vars

\* "M.2.1" and the like, parsed to one move with the parameters 0.2, 0.1
C12_Witness ==
    /\ pc = "done" /\ ~path.nil
    /\ C12_Run(2)
    /\ raw[3] # raw[5]
    /\ Len(path.Commands) = 1
    /\ View(path.Commands[1]) =
         [Symbol |-> <<raw[1]>>,
          Params |-> <<C12_Tenths(raw[3]), C12_Tenths(raw[5])>>]


(* C13: for every text holding a character that is no digit, '.', '-',     *)
(* ASCII letter, whitespace or comma, NewPath fails with "Unrecognized     *)
(* symbol '<c>'" for the leftmost such character c, whatever other fault   *)
(* the text has (no leading move, unknown command, wrong operand count,    *)
(* malformed number).                                                      *)
C13_Unrecognized(text) == {k \in DOMAIN text : ~Recognized(text[k])}

C13_Leftmost(text) == Min(C13_Unrecognized(text))

C13_LexicalError ==
    (Returned /\ C13_Unrecognized(raw) # {})
      => /\ path.nil
         /\ err = LexErr(raw[C13_Leftmost(raw)])

\* an unrecognized character follows a second, different one, in a text
\* that does not start with a move: "x+%", "1%+", "-%+"
C13_Witness ==
    /\ pc = "done"
    /\ Len(raw) >= 1 /\ ~IsMove(<<raw[1]>>)
    /\ \E k \in C13_Unrecognized(raw) :
         k > C13_Leftmost(raw) /\ raw[k] # raw[C13_Leftmost(raw)]
    /\ err = LexErr(raw[C13_Leftmost(raw)])
    /\ path.nil


(* C14: when a move operator has k >= 2 groups of pending operands, the    *)
(* groups are consumed most-recent group first, and the only repetition    *)
(* that keeps the move symbol is the first-consumed one, the last          *)
(* repetition in left-to-right order; every other repetition is rewritten  *)
(* to the line symbol of the same case.                                    *)
C14_Line(value) == IF value = <<"M">> THEN <<"L">> ELSE <<"l">>

\* the scan is at a move operator with k >= 2 whole groups pending and
\* takes its step
C14_MoveStep ==
    /\ pc = "scan" /\ i >= 1 /\ ts[i].operator /\ IsMove(ts[i].value)
    /\ RunLen(ts, i) >= 4
    /\ RunLen(ts, i) % 2 = 0
    /\ (pc' # pc \/ i' # i)

\* The command built by iteration it (from 0) is the it-th allocated by the
\* step; it holds the group k - it of the source and ends up at position
\* k - it of the commands.
C14_Consumed(it, k) ==
    /\ cmds'[k - it] = Len(heap) + it + 1
    /\ ViewIn(heap', arrays', Len(heap) + it + 1).Params
         = SourceGroup(ts, i, k - it, 2)

\* the statement as claimed: the first-consumed repetition keeps the symbol
C14_Original ==
    [][C14_MoveStep
       => LET k == RunLen(ts, i) \div 2
          IN  \A it \in 0..(k - 1) :
                /\ C14_Consumed(it, k)
                /\ heap'[Len(heap) + it + 1].Symbol =
                     IF it = 0 THEN ts[i].value ELSE C14_Line(ts[i].value)]_vars

\* the statement as the code has it: the last-consumed repetition, which is
\* the first in left-to-right order, keeps the symbol
C14_MoveRewrite ==
    [][C14_MoveStep
       => LET k == RunLen(ts, i) \div 2
          IN  /\ Len(heap') = Len(heap) + k
              /\ \A it \in 0..(k - 1) :
                   /\ C14_Consumed(it, k)
                   /\ heap'[Len(heap) + it + 1].Symbol =
                        IF it = k - 1 THEN ts[i].value
                        ELSE C14_Line(ts[i].value)]_vars

\* the scan has just passed a move operator with exactly two pairs: the
\* command allocated first stands second and is a line
C14_Witness ==
    /\ pc = "scan" /\ i < Len(ts) /\ err = NoErr
    /\ IsMove(ts[i + 1].value)
    /\ RunLen(ts, i + 1) = 4
    /\ Len(cmds) >= 2
    /\ cmds[2] < cmds[1]
    /\ heap[cmds[1]].Symbol = ts[i + 1].value
    /\ heap[cmds[2]].Symbol = C14_Line(ts[i + 1].value)
    /\ View(cmds[2]).Params = SourceGroup(ts, i + 1, 2, 2)
    /\ View(cmds[1]).Params # View(cmds[2]).Params


(* C15: on every successful NewPath call no operand is pending when the    *)
(* reverse scan has ended, and the parameter lists of the returned         *)
(* commands, concatenated in command order, are the numeric values of the  *)
(* operand tokens in input order, each in a command of the nearest         *)
(* operator to its left: none is dropped, duplicated, reordered or         *)
(* attached elsewhere.                                                     *)
RECURSIVE C15_Flat(_)
\* the parameters of the commands cs in order, each with its command's symbol
C15_Flat(cs) ==
    IF cs = <<>> THEN <<>>
    ELSE LET c == View(cs[1])
         IN  [k \in DOMAIN c.Params |->
                [Symbol |-> c.Symbol, value |-> c.Params[k]]]
               \o C15_Flat(Tail(cs))

\* the positions of the operand tokens, in input order
C15_OperandAt(tokens) ==
    SelectSeq([k \in DOMAIN tokens |-> k], LAMBDA k : ~tokens[k].operator)

\* the operators to the left of position k
C15_LeftOperators(tokens, k) == {j \in 1..(k - 1) : tokens[j].operator}

C15_Owned(tokens, k, symbol) ==
    /\ C15_LeftOperators(tokens, k) # {}
    /\ LET j == CHOOSE x \in C15_LeftOperators(tokens, k) :
                  \A y \in C15_LeftOperators(tokens, k) : y <= x
       IN  \/ symbol = tokens[j].value
           \/ IsMove(tokens[j].value) /\ symbol = C14_Line(tokens[j].value)

C15_OperandConservation ==
    Succeeded
      => LET at == C15_OperandAt(ts)
             flat == C15_Flat(path.Commands)
         IN  /\ operands = <<>>
             /\ ts = tokenize(raw)
             /\ Len(flat) = Len(at)
             /\ \A n \in DOMAIN at :
                  /\ flat[n].value = ParseFloat(ts[at[n]].value).val
                  /\ C15_Owned(ts, at[n], flat[n].Symbol)

\* three commands of two operators hold four different numbers between them
C15_Witness ==
    /\ Succeeded
    /\ Len(path.Commands) >= 3
    /\ Cardinality({k \in DOMAIN ts : ts[k].operator}) = 2
    /\ LET flat == C15_Flat(path.Commands)
       IN  /\ Len(flat) >= 4
           /\ Cardinality({flat[n].value : n \in DOMAIN flat}) = Len(flat)
           /\ flat[1].Symbol # flat[Len(flat)].Symbol


(* C16: for every path returned by a successful NewPath, whenever Subpaths *)
(* starts a segment with a command that is neither a move nor a close (the *)
(* segment buffer is empty), the subpath begins with a command of the same *)
(* symbol and parameters as the nearest move command before that point of  *)
(* the source path, followed by the segment's own commands in source       *)
(* order; subpaths are put out in source order.                            *)
C16_MovesBefore(k) ==
    {q \in 1..(k - 1) : ToLower(heap[path.Commands[q]].Symbol) = <<"m">>}

\* Subpaths takes its step on a command that is no move and no close
C16_PlainStep ==
    /\ pc = "split" /\ spi <= Len(path.Commands) /\ spi' = spi + 1
    /\ ToLower(heap[path.Commands[spi]].Symbol) \notin {<<"m">>, <<"z">>}

C16_SynthesizedMove ==
    [][/\ (C16_PlainStep /\ sPath = <<>>)
          => /\ C16_MovesBefore(spi) # {}
             /\ Len(sPath') = 2
             /\ sPath'[1] # 0
             /\ LET q == CHOOSE x \in C16_MovesBefore(spi) :
                           \A y \in C16_MovesBefore(spi) : y <= x
                IN  ViewIn(heap', arrays', sPath'[1]) = View(path.Commands[q])
             /\ sPath'[2] = path.Commands[spi]
       /\ (C16_PlainStep /\ sPath # <<>>)
          => sPath' = Append(sPath, path.Commands[spi])
       /\ pc = "split"
          => /\ Len(subpaths') >= Len(subpaths)
             /\ SubSeq(subpaths', 1, Len(subpaths)) = subpaths]_vars

====
